---- MODULE Spec2Model ----
(***************************************************************************)
(* A model of gpglib/content_parsers/keys.py: the OpenPGP signature and    *)
(* key packet parsers (SignatureParser, KeyParser, PublicKeyParser,        *)
(* SecretKeyParser and the two sub key parsers).                           *)
(*                                                                         *)
(* A region is a bitstring.ConstBitStream: a byte buffer and a position in *)
(* bits.  Bytes are the integers 0..255, byte strings are sequences.       *)
(* One decode is a run of the state machine: pc is the position of the     *)
(* parser's consume method, err the exception it left with.                *)
(***************************************************************************)
EXTENDS Integers, Sequences, FiniteSets, TLC

VARIABLES
    pc,             \* position of the running consume method
    err,            \* the exception raised, NoError while there is none
    parser,         \* the parser class handling the packet
    tag,            \* the packet tag handed to consume
    region,         \* the packet body: [bytes, pos], pos in bits
    info,           \* the info dict of KeyParser.consume (a function on its keys)
    calls,          \* the calls made on message, in order: [op, arg]
    mpi_parsed,     \* names of the MPIs parse_mpi was called for, in order
    loc,            \* the locals of the running method
    inp             \* what the packet was built from, and what message returns

vars == <<pc, err, parser, tag, region, info, calls, mpi_parsed, loc, inp>>

(***************************************************************************)
(* Bounds of the model.                                                    *)
(***************************************************************************)
\* bytes cut off the end of a packet body: 0..MaxCut
MaxCut == 1
\* longest plaintext given to crypt_CFB on its own
MaxPlainLen == 4
\* block sizes of the ciphers given to crypt_CFB on its own: 1..MaxBlock
MaxBlock == 3
\* signature subpacket region lengths: 0..MaxSubLen
MaxSubLen == 2

(***************************************************************************)
(* Byte arithmetic.                                                        *)
(***************************************************************************)
RECURSIVE XorByte(_, _)
\* ord(c) ^ ord(m)
XorByte(a, b) ==
    IF a = 0 THEN b
    ELSE IF b = 0 THEN a
    ELSE ((a + b) % 2) + 2 * XorByte(a \div 2, b \div 2)

RECURSIVE Uint(_)
\* the big-endian unsigned integer of a byte string: read('uint')
Uint(bytes) ==
    IF bytes = <<>> THEN 0
    ELSE Uint(SubSeq(bytes, 1, Len(bytes) - 1)) * 256 + bytes[Len(bytes)]

\* bitstring.Bits(uint=v, length=4*8).bytes
UintBytes4(v) ==
    << (v \div 16777216) % 256, (v \div 65536) % 256, (v \div 256) % 256, v % 256 >>

\* x & 0xff and x & 0xffff, (x >> 8)
And255(x) == x % 256
And65535(x) == x % 65536
Shr8(x) == x \div 256

Min(a, b) == IF a < b THEN a ELSE b

(***************************************************************************)
(* The region: a ConstBitStream.  A read past the end raises ReadError and *)
(* leaves the position where it was.                                       *)
(***************************************************************************)
Region(bytes) == [bytes |-> bytes, pos |-> 0]
RegionLen(r) == Len(r.bytes) * 8
CanRead(r, nbits) == r.pos + nbits <= RegionLen(r)
\* the nbits (a multiple of 8) at the position, as bytes
Peek(r, nbits) == SubSeq(r.bytes, (r.pos \div 8) + 1, (r.pos + nbits) \div 8)
Skip(r, nbits) == [r EXCEPT !.pos = @ + nbits]

(***************************************************************************)
(* The primitives of the libraries the parsers call.  SHA.new(..).digest() *)
(* is a 20 byte digest and cipher.encrypt a keyed map on blocks; both are  *)
(* stood in for by small arithmetic mixes that keep what the parsers rely  *)
(* on: the digest length, the dependence on every input byte and on the    *)
(* key.                                                                    *)
(***************************************************************************)
\* length in bytes of a SHA-1 digest
HashLen == 20

RECURSIVE Mix(_, _)
Mix(bytes, acc) ==
    IF bytes = <<>> THEN acc
    ELSE Mix(Tail(bytes), (acc * 31 + Head(bytes) + 1) % 256)

\* SHA.new(bytes).digest()
SHA(bytes) == [i \in 1..HashLen |-> Mix(bytes, (17 * i + Len(bytes)) % 256)]

\* ciphermod.new(key, MODE_ECB).encrypt(block)
Encrypt(key, block) ==
    [i \in 1..Len(block) |->
        (block[i] * 3 + Mix(key, i) + Mix(block, 5)) % 256]

(***************************************************************************)
(* Exceptions.  kind names the exception by the place that raises it, what *)
(* carries the description given to only_implemented.                      *)
(***************************************************************************)
Error(kind, what) == [kind |-> kind, what |-> what]
NoError == Error("none", "")
\* bitstring.ReadError: a read past the end of a region
ReadError == Error("ReadError", "")
\* bitstring's ValueError: read of a negative amount
NegativeRead == Error("ValueError", "Cannot read negative amount")
\* NotImplementedError of consume_common, keys.py line 118
UnsupportedVersion == Error("UnsupportedVersion", "Public key versions != 4")
\* errors.PGPException of consume_mpi, keys.py line 137
UnknownMpiAlgorithm == Error("UnsupportedAlgorithm", "Unknown mpi algorithm")
\* errors.PGPException of consume_rest, keys.py line 215
IntegrityCheckFailed == Error("IntegrityCheckFailed", "Secret key hashes don't match")
\* what line 191 is written to raise: NotImplementedError for the cipher
UnsupportedCipher == Error("UnsupportedCipher", "Symmetric encryption type")
\* what line 191 raises: its message is formatted from the name algo, which
\* is bound nowhere in the module
NameErrorAlgo == Error("NameError", "global name 'algo' is not defined")

\* Parser.only_implemented(received, implemented, message): the exception it
\* raises, NoError when received is implemented
only_implemented(received, implemented, message) ==
    IF received \in implemented THEN NoError
    ELSE Error("UnsupportedFeature", message)

(***************************************************************************)
(* Dicts: functions on their keys.                                         *)
(***************************************************************************)
EmptyDict == [k \in {} |-> 0]
Put(d, k, v) == (k :> v) @@ d
Has(d, k) == k \in DOMAIN d

(***************************************************************************)
(* The cipher registry of base.py: ENCRYPTION_ALGORITHMS maps the cipher   *)
(* ID to a cipher module, of which the parsers use block_size.             *)
(***************************************************************************)
ENCRYPTION_ALGORITHMS == (3 :> [name |-> "CAST", block_size |-> 8])
                      @@ (7 :> [name |-> "AES", block_size |-> 16])

(***************************************************************************)
(* Parser.parse_mpi(region): a 16 bit count of bits, then the magnitude in *)
(* ceil(bits / 8) bytes.  The result is the magnitude's bytes.             *)
(***************************************************************************)
MpiByteCount(bits) == (bits + 7) \div 8
MpiBits(r) == Uint(Peek(r, 16))
parse_mpi_ok(r) ==
    /\ CanRead(r, 16)
    /\ CanRead(Skip(r, 16), 8 * MpiByteCount(MpiBits(r)))
parse_mpi_value(r) == Peek(Skip(r, 16), 8 * MpiByteCount(MpiBits(r)))
parse_mpi_region(r) == Skip(Skip(r, 16), 8 * MpiByteCount(MpiBits(r)))

RECURSIVE parse_mpis(_, _)
\* parse_mpi called for each of names in turn, stopping at the first that
\* raises: [err, values, region, called]
parse_mpis(r, names) ==
    IF names = <<>>
    THEN [err |-> NoError, values |-> EmptyDict, region |-> r, called |-> <<>>]
    ELSE IF ~parse_mpi_ok(r)
    THEN [err |-> ReadError, values |-> EmptyDict,
          region |-> IF CanRead(r, 16) THEN Skip(r, 16) ELSE r,
          called |-> <<Head(names)>>]
    ELSE LET rest == parse_mpis(parse_mpi_region(r), Tail(names))
         IN  [err |-> rest.err,
              values |-> Put(rest.values, Head(names), parse_mpi_value(r)),
              region |-> rest.region,
              called |-> <<Head(names)>> \o rest.called]

rsa_mpis(r) == parse_mpis(r, <<"n", "e">>)
elgamal_mpis(r) == parse_mpis(r, <<"p", "g", "y">>)
dsa_mpis(r) == parse_mpis(r, <<"p", "q", "g", "y">>)

\* KeyParser.consume_mpi
consume_mpi(r, algorithm) ==
    IF algorithm \in {1, 2, 3} THEN rsa_mpis(r)
    ELSE IF algorithm \in {16, 20} THEN elgamal_mpis(r)
    ELSE IF algorithm = 17 THEN dsa_mpis(r)
    ELSE [err |-> UnknownMpiAlgorithm, values |-> EmptyDict, region |-> r,
          called |-> <<>>]

RECURSIVE BitLength(_)
BitLength(v) == IF v = 0 THEN 0 ELSE 1 + BitLength(v \div 2)
\* an MPI written again from its magnitude, with the count of bits it needs
Reserialized(mag) ==
    <<BitLength(Uint(mag)) \div 256, BitLength(Uint(mag)) % 256>> \o mag

\* get_mpi_values writing the raw bytes again from the decoded values
get_mpi_values_reserialized(r, algorithm) ==
    LET got == consume_mpi(r, algorithm)
    IN  IF got.err # NoError
        THEN [err |-> got.err, mpi_values |-> EmptyDict, raw_mpi_bytes |-> <<>>,
              region |-> got.region, called |-> got.called]
        ELSE [err |-> NoError, mpi_values |-> got.values,
              raw_mpi_bytes |-> Reserialized(got.values["n"])
                                \o Reserialized(got.values["e"]),
              region |-> got.region,
              called |-> got.called]

\* KeyParser.get_mpi_values: [err, mpi_values, raw_mpi_bytes, region, called]
get_mpi_values(r, algorithm) ==
    LET pos_before == r.pos
        got == consume_mpi(r, algorithm)
        pos_after == got.region.pos
        rewound == [got.region EXCEPT !.pos = pos_before]
        mpi_length == (pos_after - pos_before) \div 8
    IN  IF got.err # NoError
        THEN [err |-> got.err, mpi_values |-> EmptyDict, raw_mpi_bytes |-> <<>>,
              region |-> got.region, called |-> got.called]
        ELSE [err |-> NoError, mpi_values |-> got.values,
              raw_mpi_bytes |-> Peek(rewound, 8 * mpi_length),
              region |-> Skip(rewound, 8 * mpi_length),
              called |-> got.called]

\* consume_common without the guard on the algorithm
consume_common_no_guard(t, r) ==
    IF ~CanRead(r, 48)
    THEN [err |-> ReadError, region |-> r, info |-> EmptyDict]
    ELSE LET header == Peek(r, 48)
         IN  IF header[1] # 4
             THEN [err |-> UnsupportedVersion, region |-> Skip(r, 48),
                   info |-> EmptyDict]
             ELSE [err |-> NoError, region |-> Skip(r, 48),
                   info |-> [tag |-> t, key_version |-> header[1],
                             ctime |-> Uint(SubSeq(header, 2, 5)),
                             algorithm |-> header[6]]]

\* KeyParser.consume_common: [err, region, info]
consume_common(t, r) ==
    IF ~CanRead(r, 48)
    THEN [err |-> ReadError, region |-> r, info |-> EmptyDict]
    ELSE LET header == Peek(r, 48)
             public_key_version == header[1]
             ctime == Uint(SubSeq(header, 2, 5))
             public_key_algo == header[6]
             guard == only_implemented(public_key_algo, {1}, "RSA public keys")
         IN  IF public_key_version # 4
             THEN [err |-> UnsupportedVersion, region |-> Skip(r, 48),
                   info |-> EmptyDict]
             ELSE IF guard # NoError
             THEN [err |-> guard, region |-> Skip(r, 48), info |-> EmptyDict]
             ELSE [err |-> NoError, region |-> Skip(r, 48),
                   info |-> [tag |-> t, key_version |-> public_key_version,
                             ctime |-> ctime, algorithm |-> public_key_algo]]

\* the length field counting the MPI bytes alone
fingerprint_data_mpi_length(i) ==
    LET body == <<i.key_version>> \o UintBytes4(i.ctime) \o <<i.algorithm>>
                \o i.raw_mpi_bytes
        fingerprint_length == Len(i.raw_mpi_bytes)
    IN  <<153, Shr8(And65535(fingerprint_length)), And255(fingerprint_length)>>
        \o body

\* the bytes determine_key_id hashes
fingerprint_data(i) ==
    LET body == <<i.key_version>> \o UintBytes4(i.ctime) \o <<i.algorithm>>
                \o i.raw_mpi_bytes
        fingerprint_length == Len(body)
    IN  <<153, Shr8(And65535(fingerprint_length)), And255(fingerprint_length)>>
        \o body

\* the last 16 hex digits of a digest as an integer: its last 8 bytes, kept
\* as the integer's 8 base 256 digits
Low64(digest) == SubSeq(digest, Len(digest) - 7, Len(digest))

\* KeyParser.determine_key_id
determine_key_id(i) == Low64(SHA(fingerprint_data(i)))

\* RSA.construct(long(i.read('uint')) for i in mpi_tuple)
RSAconstruct(mpi_tuple) == [k \in DOMAIN mpi_tuple |-> Uint(mpi_tuple[k])]

(***************************************************************************)
(* SecretKeyParser.crypt_CFB                                               *)
(***************************************************************************)
RECURSIVE cfb_blocks_plain_feedback(_, _, _, _)
\* the loop feeding the decrypted chunk back instead of the chunk read
cfb_blocks_plain_feedback(data, shift, key, iv) ==
    IF data = <<>> THEN <<>>
    ELSE LET inblock == SubSeq(data, 1, Min(shift, Len(data)))
             mask == Encrypt(key, iv)
             chunk == [i \in 1..Min(Len(mask), Len(inblock)) |->
                          XorByte(inblock[i], mask[i])]
         IN  chunk \o cfb_blocks_plain_feedback(
                          SubSeq(data, Len(inblock) + 1, Len(data)),
                          shift, key, chunk)

RECURSIVE cfb_blocks(_, _, _, _)
\* the loop of crypt_CFB over the chunks of data, shift bytes at a time and
\* a shorter last chunk: the chunks of the result, joined
cfb_blocks(data, shift, key, iv) ==
    IF data = <<>> THEN <<>>
    ELSE LET inblock == SubSeq(data, 1, Min(shift, Len(data)))
             mask == Encrypt(key, iv)
             chunk == [i \in 1..Min(Len(mask), Len(inblock)) |->
                          XorByte(inblock[i], mask[i])]
         IN  chunk \o cfb_blocks(SubSeq(data, Len(inblock) + 1, Len(data)),
                                 shift, key, inblock)

\* [result, region]: the decrypted rest of the region, and the region read
\* to its end
crypt_CFB(r, ciphermod, key, iv) ==
    LET shift == ciphermod.block_size
        region_length == (RegionLen(r) - r.pos) \div 8
        leftover == region_length % shift
        consumed == shift * (region_length \div shift) + leftover
    IN  [result |-> cfb_blocks(Peek(r, 8 * consumed), shift, key, iv),
         region |-> Skip(r, 8 * consumed)]

(***************************************************************************)
(* Parser.parse_s2k(region, cipher, passphrase) of base.py: reads the      *)
(* string-to-key specifier (type, hash algorithm, 8 bytes of salt, count)  *)
(* and derives the cipher key from the passphrase: [err, key, region]      *)
(***************************************************************************)
DeriveKey(passphrase, salt) ==
    <<Mix(passphrase \o salt, 1), Mix(salt \o passphrase, 2)>>

parse_s2k(r, cipher, passphrase) ==
    IF ~CanRead(r, 88)
    THEN [err |-> ReadError, key |-> <<>>, region |-> r]
    ELSE [err |-> NoError,
          key |-> DeriveKey(passphrase, SubSeq(Peek(r, 88), 3, 10)),
          region |-> Skip(r, 88)]

(***************************************************************************)
(* The packets decoded: built from a few choices for each field.           *)
(***************************************************************************)
\* the parser class of a packet tag
ParserOf == (5 :> "SecretKeyParser") @@ (6 :> "PublicKeyParser")
         @@ (7 :> "SecretSubKeyParser") @@ (14 :> "PublicSubKeyParser")
KeyTags == DOMAIN ParserOf
IsSecret(p) == p \in {"SecretKeyParser", "SecretSubKeyParser"}
IsSubKey(p) == p \in {"PublicSubKeyParser", "SecretSubKeyParser"}

\* an MPI on the wire: the count of bits in 16 bits, then the magnitude
Mpi(bits, mag) == [bits |-> bits, mag |-> mag]
MpiWire(m) == <<m.bits \div 256, m.bits % 256>> \o m.mag

\* n = 527 = 17 * 31, once with the count of bits a writer may round up
ModulusChoices == {Mpi(10, <<2, 15>>), Mpi(16, <<2, 15>>)}
\* e = 7 and e = 65537
ExponentChoices == {Mpi(3, <<7>>), Mpi(17, <<1, 0, 1>>)}
\* d = 343, p = 17, q = 31, u = 11
PrivateMpis == <<Mpi(9, <<1, 87>>), Mpi(5, <<17>>), Mpi(5, <<31>>), Mpi(4, <<11>>)>>
PrivateWire ==
    MpiWire(PrivateMpis[1]) \o MpiWire(PrivateMpis[2])
    \o MpiWire(PrivateMpis[3]) \o MpiWire(PrivateMpis[4])

CtimeChoices == {0, 16909060}
\* (version, algorithm) of the header; the first is the supported one
GoodHeader == <<4, 1>>
HeaderChoices == {GoodHeader, <<3, 1>>, <<4, 99>>, <<3, 99>>, <<4, 2>>, <<4, 17>>}
S2KTypeChoices == {0, 254, 3, 255}
CipherChoices == {3, 7, 99}
RightPassphrase == <<112, 119>>
WrongPassphrase == <<120>>
Salt == <<1, 2, 3, 4, 5, 6, 7, 8>>
S2KSpecifier == <<3, 2>> \o Salt \o <<96>>

\* cipher feedback encryption, the inverse crypt_CFB is written for
RECURSIVE CFBEncrypt(_, _, _, _)
CFBEncrypt(plain, shift, key, iv) ==
    IF plain = <<>> THEN <<>>
    ELSE LET n == Min(shift, Len(plain))
             mask == Encrypt(key, iv)
             outblock == [i \in 1..n |-> XorByte(plain[i], mask[i])]
         IN  outblock \o CFBEncrypt(SubSeq(plain, n + 1, Len(plain)), shift,
                                    key, outblock)

\* a byte string with its last byte changed
Damage(bytes) ==
    [i \in 1..Len(bytes) |->
        IF i = Len(bytes) THEN (bytes[i] + 1) % 256 ELSE bytes[i]]

BlockSizeFor(cipher_id) ==
    IF cipher_id \in DOMAIN ENCRYPTION_ALGORITHMS
    THEN ENCRYPTION_ALGORITHMS[cipher_id].block_size ELSE 8
IVFor(cipher_id) == [i \in 1..BlockSizeFor(cipher_id) |-> (9 * i) % 256]

\* the private part of a secret key packet; keep = "specifier" ends it inside
\* the string-to-key specifier, keep = "short" a few bytes into the stream
SecretPart(c) ==
    LET stream == PrivateWire \o SHA(PrivateWire)
        sent == IF c.damaged THEN Damage(stream) ELSE stream
        encrypted == CFBEncrypt(sent, BlockSizeFor(c.cipher_id),
                                DeriveKey(RightPassphrase, Salt),
                                IVFor(c.cipher_id))
    IN  IF c.s2k_type = 254
        THEN IF c.keep = "specifier"
             THEN <<254, c.cipher_id>> \o SubSeq(S2KSpecifier, 1, 3)
             ELSE <<254, c.cipher_id>> \o S2KSpecifier \o IVFor(c.cipher_id)
                  \o (IF c.keep = "short" THEN SubSeq(encrypted, 1, 4)
                      ELSE encrypted)
        ELSE <<c.s2k_type>>
             \o (IF c.keep = "short" THEN SubSeq(sent, 1, 4) ELSE sent)

PublicWire(c) == MpiWire(c.n) \o MpiWire(c.e)

\* the body of the key packet of the choices c
KeyBody(c) ==
    LET whole == <<c.header[1]>> \o UintBytes4(c.ctime) \o <<c.header[2]>>
                 \o PublicWire(c)
                 \o (IF IsSecret(ParserOf[c.tag]) THEN SecretPart(c) ELSE <<>>)
    IN  IF c.keep = "header" THEN SubSeq(whole, 1, 3)
        ELSE SubSeq(whole, 1, Len(whole) - c.cut)

DefaultModulus == Mpi(10, <<2, 15>>)
DefaultExponent == Mpi(3, <<7>>)

KeyChoices ==
    { c \in [tag : KeyTags, header : HeaderChoices, ctime : CtimeChoices,
             n : ModulusChoices, e : ExponentChoices,
             s2k_type : S2KTypeChoices, cipher_id : CipherChoices,
             passphrase : {RightPassphrase, WrongPassphrase},
             damaged : BOOLEAN, cut : 0..MaxCut,
             keep : {"all", "header", "short", "specifier"}] :
        \* one packet for each unsupported header
        /\ c.header # GoodHeader =>
              /\ c.ctime = 0 /\ c.n = DefaultModulus /\ c.e = DefaultExponent
              /\ c.keep = "all" /\ c.cut = 0 /\ c.s2k_type = 0
        /\ c.keep # "all" => c.cut = 0
        /\ c.keep = "short" =>
              IsSecret(ParserOf[c.tag]) /\ c.s2k_type \in {0, 254}
        /\ c.keep = "specifier" =>
              IsSecret(ParserOf[c.tag]) /\ c.s2k_type = 254
        /\ c.keep \in {"short", "specifier"} =>
              ~c.damaged /\ c.e = DefaultExponent /\ c.ctime = 0
        \* the private part varies in secret key packets alone
        /\ ~IsSecret(ParserOf[c.tag]) => c.s2k_type = 0 /\ ~c.damaged
        /\ c.s2k_type # 254 => c.cipher_id = 3 /\ c.passphrase = RightPassphrase
        /\ c.s2k_type \notin {0, 254} => ~c.damaged /\ c.cut = 0
        /\ c.cipher_id = 99 => ~c.damaged /\ c.cut = 0
                               /\ c.passphrase = RightPassphrase }

(***************************************************************************)
(* KeyParser.consume and the consume_rest of its subclasses, a step for    *)
(* each call consume makes and for each statement of the secret key's      *)
(* consume_rest that reads the region or calls out.                        *)
(***************************************************************************)
Call(op, arg) == [op |-> op, arg |-> arg]

\* an exception leaves consume: nothing after the raise runs
Raise(e) ==
    /\ pc' = "failed"
    /\ err' = e

KeyInit ==
    \E c \in KeyChoices :
        /\ inp = c
        /\ tag = c.tag
        /\ parser = ParserOf[c.tag]
        /\ region = Region(KeyBody(c))
        /\ pc = "consume_common"
        /\ err = NoError
        /\ info = EmptyDict
        /\ calls = <<>>
        /\ mpi_parsed = <<>>
        /\ loc = EmptyDict

\* consume, line 48: info = self.consume_common(tag, message, region)
KeyConsumeCommon ==
    /\ pc = "consume_common"
    /\ LET got == consume_common(tag, region)
       IN  /\ region' = got.region
           /\ IF got.err # NoError
              THEN Raise(got.err) /\ UNCHANGED info
              ELSE pc' = "get_mpi_values" /\ info' = got.info /\ UNCHANGED err
    /\ UNCHANGED <<parser, tag, calls, mpi_parsed, loc, inp>>

\* consume, lines 52-54
KeyGetMpiValues ==
    /\ pc = "get_mpi_values"
    /\ LET got == get_mpi_values(region, info["algorithm"])
       IN  /\ region' = got.region
           /\ mpi_parsed' = mpi_parsed \o got.called
           /\ IF got.err # NoError
              THEN Raise(got.err) /\ UNCHANGED info
              ELSE /\ pc' = "consume_rest"
                   /\ info' = Put(Put(info, "mpi_values", got.mpi_values),
                                  "raw_mpi_bytes", got.raw_mpi_bytes)
                   /\ UNCHANGED err
    /\ UNCHANGED <<parser, tag, calls, loc, inp>>

\* PublicKeyParser.consume_rest, lines 164-167
PublicConsumeRest ==
    /\ pc = "consume_rest"
    /\ ~IsSecret(parser)
    /\ LET mpi_tuple == <<info["mpi_values"]["n"], info["mpi_values"]["e"]>>
       IN  info' = Put(Put(info, "key", RSAconstruct(mpi_tuple)),
                       "key_id", determine_key_id(info))
    /\ loc' = Put(loc, "fingerprint_data", fingerprint_data(info))
    /\ pc' = "add_value"
    /\ UNCHANGED <<err, parser, tag, region, calls, mpi_parsed, inp>>

\* SecretKeyParser.consume_rest, lines 177-182
SecretReadS2KType ==
    /\ pc = "consume_rest"
    /\ IsSecret(parser)
    /\ IF ~CanRead(region, 8)
       THEN Raise(ReadError) /\ UNCHANGED <<region, loc>>
       ELSE LET s2k_type == Peek(region, 8)[1]
                guard == only_implemented(s2k_type, {0, 254},
                                          "Unencrypted and s2k_type 254")
            IN  /\ region' = Skip(region, 8)
                /\ loc' = Put(loc, "s2k_type", s2k_type)
                /\ IF guard # NoError THEN Raise(guard)
                   ELSE /\ pc' = IF s2k_type = 0 THEN "private_mpis"
                                 ELSE "cipher"
                        /\ UNCHANGED err
    /\ UNCHANGED <<parser, tag, info, calls, mpi_parsed, inp>>

\* the exception of line 191
cipher_lookup_error == NameErrorAlgo

\* the lookup falling back to CAST for a cipher that is not registered
SecretLookupCipher_fallback ==
    /\ pc = "cipher"
    /\ IF ~CanRead(region, 8)
       THEN Raise(ReadError) /\ UNCHANGED <<region, loc>>
       ELSE LET encryption_algo == Peek(region, 8)[1]
                found == IF encryption_algo \in DOMAIN ENCRYPTION_ALGORITHMS
                         THEN encryption_algo ELSE 3
            IN  /\ region' = Skip(region, 8)
                /\ pc' = "passphrase"
                /\ loc' = Put(Put(loc, "encryption_algo", encryption_algo),
                              "cipher", ENCRYPTION_ALGORITHMS[found])
                /\ UNCHANGED err
    /\ UNCHANGED <<parser, tag, info, calls, mpi_parsed, inp>>

\* SecretKeyParser.consume_rest, lines 186-191
SecretLookupCipher ==
    /\ pc = "cipher"
    /\ IF ~CanRead(region, 8)
       THEN Raise(ReadError) /\ UNCHANGED <<region, loc>>
       ELSE LET encryption_algo == Peek(region, 8)[1]
            IN  /\ region' = Skip(region, 8)
                /\ IF encryption_algo \notin DOMAIN ENCRYPTION_ALGORITHMS
                   THEN /\ Raise(cipher_lookup_error)
                        /\ loc' = Put(loc, "encryption_algo", encryption_algo)
                   ELSE /\ pc' = "passphrase"
                        /\ loc' = Put(Put(loc, "encryption_algo", encryption_algo),
                                      "cipher", ENCRYPTION_ALGORITHMS[encryption_algo])
                        /\ UNCHANGED err
    /\ UNCHANGED <<parser, tag, info, calls, mpi_parsed, inp>>

\* line 194, the argument: message.passphrase(message, info)
SecretAskPassphrase ==
    /\ pc = "passphrase"
    /\ calls' = Append(calls, Call("passphrase", info))
    /\ loc' = Put(loc, "passphrase", inp.passphrase)
    /\ pc' = "parse_s2k"
    /\ UNCHANGED <<err, parser, tag, region, info, mpi_parsed, inp>>

\* line 194, the call: self.parse_s2k(region, cipher, passphrase)
SecretParseS2K ==
    /\ pc = "parse_s2k"
    /\ LET got == parse_s2k(region, loc["cipher"], loc["passphrase"])
       IN  /\ region' = got.region
           /\ IF got.err # NoError
              THEN Raise(got.err) /\ UNCHANGED loc
              ELSE /\ loc' = Put(loc, "key_passphrase", got.key)
                   /\ pc' = "iv"
                   /\ UNCHANGED err
    /\ UNCHANGED <<parser, tag, info, calls, mpi_parsed, inp>>

\* line 197
SecretReadIV ==
    /\ pc = "iv"
    /\ LET width == loc["cipher"].block_size * 8
       IN  IF ~CanRead(region, width)
           THEN Raise(ReadError) /\ UNCHANGED <<region, loc>>
           ELSE /\ loc' = Put(loc, "iv", Peek(region, width))
                /\ region' = Skip(region, width)
                /\ pc' = "decrypt"
                /\ UNCHANGED err
    /\ UNCHANGED <<parser, tag, info, calls, mpi_parsed, inp>>

\* lines 200-201
SecretDecrypt ==
    /\ pc = "decrypt"
    /\ LET got == crypt_CFB(region, loc["cipher"], loc["key_passphrase"], loc["iv"])
       IN  /\ region' = got.region
           /\ loc' = Put(loc, "decrypted", got.result)
    /\ pc' = "check_hash"
    /\ UNCHANGED <<err, parser, tag, info, calls, mpi_parsed, inp>>

\* the comparison gone: every stream passes
hashes_match_always(generated_hash, real_hash) == TRUE

\* the comparison stopping after the first byte
hashes_match_first_byte(generated_hash, real_hash) ==
    generated_hash[1] = real_hash[1]

\* the comparison of line 214
hashes_match(generated_hash, real_hash) == generated_hash = real_hash

\* lines 206-215
SecretCheckHash ==
    /\ pc = "check_hash"
    /\ LET decrypted == loc["decrypted"]
           mpis_len == Len(decrypted) - HashLen
           mpis == SubSeq(decrypted, 1, mpis_len)
           generated_hash == SHA(mpis)
           real_hash == SubSeq(decrypted, mpis_len + 1, Len(decrypted))
       IN  IF mpis_len < 0
           THEN Raise(NegativeRead) /\ UNCHANGED loc
           ELSE /\ loc' = Put(Put(Put(loc, "mpis", Region(mpis)),
                                  "generated_hash", generated_hash),
                              "real_hash", real_hash)
                /\ IF ~hashes_match(generated_hash, real_hash)
                   THEN Raise(IntegrityCheckFailed)
                   ELSE pc' = "private_mpis" /\ UNCHANGED err
    /\ UNCHANGED <<parser, tag, region, info, calls, mpi_parsed, inp>>

\* lines 218-232; with s2k_type 0 mpis is the region itself
SecretPrivateMpis ==
    /\ pc = "private_mpis"
    /\ LET plain == loc["s2k_type"] = 0
           mpis == IF plain THEN region ELSE loc["mpis"]
           got == parse_mpis(mpis, <<"d", "p", "q", "u">>)
           mpi_tuple == <<info["mpi_values"]["n"], info["mpi_values"]["e"],
                          got.values["d"], got.values["p"],
                          got.values["q"], got.values["u"]>>
           after == IF plain THEN loc ELSE Put(loc, "mpis", got.region)
       IN  /\ mpi_parsed' = mpi_parsed \o got.called
           /\ region' = IF plain THEN got.region ELSE region
           /\ IF got.err # NoError
              THEN Raise(got.err) /\ loc' = after /\ UNCHANGED info
              ELSE /\ info' = Put(Put(info, "key", RSAconstruct(mpi_tuple)),
                                  "key_id", determine_key_id(info))
                   /\ loc' = Put(after, "fingerprint_data",
                                 fingerprint_data(info))
                   /\ pc' = "add_value"
                   /\ UNCHANGED err
    /\ UNCHANGED <<parser, tag, calls, inp>>

\* the sub key parsers without their override of add_value
add_value_method_inherited(p) == "add_key"

\* the message method of the parser's add_value, lines 161-162 and 265-271
add_value_method(p) ==
    IF IsSubKey(p) THEN "add_sub_key" ELSE "add_key"

\* consume, line 58: self.add_value(message, info)
AddValue ==
    /\ pc = "add_value"
    /\ calls' = Append(calls, Call(add_value_method(parser), info))
    /\ pc' = "done"
    /\ UNCHANGED <<err, parser, tag, region, info, mpi_parsed, loc, inp>>

KeyNext ==
    \/ KeyConsumeCommon
    \/ KeyGetMpiValues
    \/ PublicConsumeRest
    \/ SecretReadS2KType
    \/ SecretLookupCipher
    \/ SecretAskPassphrase
    \/ SecretParseS2K
    \/ SecretReadIV
    \/ SecretDecrypt
    \/ SecretCheckHash
    \/ SecretPrivateMpis
    \/ AddValue

Init == KeyInit
Next == KeyNext
Spec == Init /\ [][Next]_vars

(***************************************************************************)
(* SignatureParser.consume.  message.consume_subsignature is the caller's: *)
(* it returns something opaque, or raises.                                 *)
(***************************************************************************)
GoodSigHeader == <<4, 19, 1, 2>>
\* (version, signature type, public key algorithm, hash algorithm)
SigHeaderChoices ==
    {GoodSigHeader, <<4, 24, 1, 2>>}
    \cup {<<3, 19, 1, 2>>, <<4, 16, 1, 2>>, <<4, 19, 17, 2>>, <<4, 19, 1, 8>>,
          <<3, 16, 17, 8>>, <<4, 16, 17, 2>>, <<4, 24, 17, 8>>, <<5, 24, 1, 2>>}
Uint16Bytes(v) == <<(v \div 256) % 256, v % 256>>
SubpacketBytes(first, n) == [i \in 1..n |-> first + i]

\* the whole body of the signature packet of the choices c
SigWhole(c) ==
    c.header \o Uint16Bytes(c.hashed_len) \o SubpacketBytes(16, c.hashed_len)
    \o Uint16Bytes(c.unhashed_len) \o SubpacketBytes(32, c.unhashed_len)
    \o <<171, 205>> \o MpiWire(Mpi(9, <<1, 35>>))

SigChoices ==
    { c \in [header : SigHeaderChoices, hashed_len : 0..MaxSubLen,
             unhashed_len : 0..MaxSubLen, kept : 0..(14 + 2 * MaxSubLen),
             consumer_raises : 0..2] :
        /\ c.kept <= Len(SigWhole(c))
        /\ c.header \notin {GoodSigHeader, <<4, 24, 1, 2>>} =>
              /\ c.hashed_len = 1 /\ c.unhashed_len = 1
              /\ c.consumer_raises = 0
              /\ c.kept \in {Len(SigWhole(c)), 6}
        /\ c.header = <<4, 24, 1, 2>> =>
              c.consumer_raises = 0 /\ c.kept = Len(SigWhole(c)) }

ConsumerError == Error("ConsumerError", "consume_subsignature raised")

SigInit ==
    \E c \in SigChoices :
        /\ inp = c
        /\ tag = 2
        /\ parser = "SignatureParser"
        /\ region = Region(SubSeq(SigWhole(c), 1, c.kept))
        /\ pc = "header"
        /\ err = NoError
        /\ info = EmptyDict
        /\ calls = <<>>
        /\ mpi_parsed = <<>>
        /\ loc = EmptyDict

\* the guards without the one on the hash algorithm
signature_guards_no_hash(version, signature_type, public_key_algorithm, hash_algorithm) ==
    LET g1 == only_implemented(version, {4}, "version four signature packets")
        g2 == only_implemented(signature_type, {19, 24},
                               "UserId and Subkey binding signatures")
        g3 == only_implemented(public_key_algorithm, {1},
                               "RSA Encrypt or sign public keys")
    IN  IF g1 # NoError THEN g1
        ELSE IF g2 # NoError THEN g2
        ELSE g3

\* the first of the four guards of lines 19-22 that raises
signature_guards(version, signature_type, public_key_algorithm, hash_algorithm) ==
    LET g1 == only_implemented(version, {4}, "version four signature packets")
        g2 == only_implemented(signature_type, {19, 24},
                               "UserId and Subkey binding signatures")
        g3 == only_implemented(public_key_algorithm, {1},
                               "RSA Encrypt or sign public keys")
        g4 == only_implemented(hash_algorithm, {2}, "SHA-1 hashing")
    IN  IF g1 # NoError THEN g1
        ELSE IF g2 # NoError THEN g2
        ELSE IF g3 # NoError THEN g3
        ELSE g4

\* lines 15-22
SigHeader ==
    /\ pc = "header"
    /\ IF ~CanRead(region, 48)
       THEN Raise(ReadError) /\ UNCHANGED <<region, loc>>
       ELSE LET h == Peek(region, 48)
                guard == signature_guards(h[1], h[2], h[3], h[4])
            IN  /\ region' = Skip(region, 48)
                /\ loc' = [version |-> h[1], signature_type |-> h[2],
                           public_key_algorithm |-> h[3],
                           hash_algorithm |-> h[4],
                           hashed_subpacket_length |-> Uint(SubSeq(h, 5, 6))]
                /\ IF guard # NoError THEN Raise(guard)
                   ELSE pc' = "hashed" /\ UNCHANGED err
    /\ UNCHANGED <<parser, tag, info, calls, mpi_parsed, inp>>

\* message.consume_subsignature raises on the call the caller chose
ConsumerRaises == inp.consumer_raises = Len(calls) + 1

\* lines 25-26
SigHashed ==
    /\ pc = "hashed"
    /\ LET width == loc["hashed_subpacket_length"] * 8
       IN  IF ~CanRead(region, width)
           THEN Raise(ReadError) /\ UNCHANGED <<region, calls>>
           ELSE /\ region' = Skip(region, width)
                /\ calls' = Append(calls, Call("consume_subsignature",
                                               Peek(region, width)))
                /\ IF ConsumerRaises THEN Raise(ConsumerError)
                   ELSE pc' = "unhashed" /\ UNCHANGED err
    /\ UNCHANGED <<parser, tag, info, mpi_parsed, loc, inp>>

\* lines 30-32
SigUnhashed ==
    /\ pc = "unhashed"
    /\ IF ~CanRead(region, 16)
       THEN Raise(ReadError) /\ UNCHANGED <<region, calls, loc>>
       ELSE LET unhashed_subpacket_length == Uint(Peek(region, 16))
                body == Skip(region, 16)
                width == unhashed_subpacket_length * 8
            IN  /\ loc' = Put(loc, "unhashed_subpacket_length",
                              unhashed_subpacket_length)
                /\ IF ~CanRead(body, width)
                   THEN Raise(ReadError) /\ region' = body /\ UNCHANGED calls
                   ELSE /\ region' = Skip(body, width)
                        /\ calls' = Append(calls, Call("consume_subsignature",
                                                       Peek(body, width)))
                        /\ IF ConsumerRaises THEN Raise(ConsumerError)
                           ELSE pc' = "signature" /\ UNCHANGED err
    /\ UNCHANGED <<parser, tag, info, mpi_parsed, inp>>

\* lines 35-39
SigSignature ==
    /\ pc = "signature"
    /\ IF ~CanRead(region, 16)
       THEN Raise(ReadError) /\ UNCHANGED <<region, loc, mpi_parsed>>
       ELSE LET after == Skip(region, 16)
                got == parse_mpis(after, <<"mdn">>)
            IN  /\ region' = got.region
                /\ mpi_parsed' = mpi_parsed \o got.called
                /\ IF got.err # NoError
                   THEN /\ Raise(got.err)
                        /\ loc' = Put(loc, "left_of_signed_hash", Peek(region, 16))
                   ELSE /\ loc' = Put(Put(loc, "left_of_signed_hash",
                                          Peek(region, 16)),
                                      "mdn", Uint(got.values["mdn"]))
                        /\ pc' = "done"
                        /\ UNCHANGED err
    /\ UNCHANGED <<parser, tag, info, calls, inp>>

SigNext ==
    \/ SigHeader
    \/ SigHashed
    \/ SigUnhashed
    \/ SigSignature

SigSpec == SigInit /\ [][SigNext]_vars

(***************************************************************************)
(* crypt_CFB on its own: every key, IV, block size and plaintext of the    *)
(* bounds, the region holding the cipher feedback encryption of the        *)
(* plaintext after some bytes already read.                                *)
(***************************************************************************)
PlainByteChoices == {1, 254}
RECURSIVE SeqsUpTo(_, _)
SeqsUpTo(S, n) ==
    IF n = 0 THEN {<<>>}
    ELSE LET shorter == SeqsUpTo(S, n - 1)
         IN  shorter \cup {Append(q, x) : q \in shorter, x \in S}

CfbChoices ==
    [key : {<<1>>, <<2, 3>>}, block_size : 1..MaxBlock, iv_first : {0, 77},
     plain : SeqsUpTo(PlainByteChoices, MaxPlainLen), read : {<<>>, <<9>>}]
CfbIV(c) == [i \in 1..c.block_size |-> (c.iv_first + 5 * i) % 256]
CfbCiphermod(c) == [name |-> "block cipher", block_size |-> c.block_size]

CfbInit ==
    \E c \in CfbChoices :
        /\ inp = c
        /\ tag = 5
        /\ parser = "SecretKeyParser"
        /\ region = [bytes |-> c.read \o CFBEncrypt(c.plain, c.block_size,
                                                    c.key, CfbIV(c)),
                     pos |-> 8 * Len(c.read)]
        /\ pc = "crypt_CFB"
        /\ err = NoError
        /\ info = EmptyDict
        /\ calls = <<>>
        /\ mpi_parsed = <<>>
        /\ loc = EmptyDict

\* line 200: result = self.crypt_CFB(region, cipher, key_passphrase, iv)
CfbDecrypt ==
    /\ pc = "crypt_CFB"
    /\ LET got == crypt_CFB(region, CfbCiphermod(inp), inp.key, CfbIV(inp))
       IN  /\ region' = got.region
           /\ loc' = Put(loc, "result", got.result)
    /\ pc' = "done"
    /\ UNCHANGED <<err, parser, tag, info, calls, mpi_parsed, inp>>

CfbNext == CfbDecrypt

CfbSpec == CfbInit /\ [][CfbNext]_vars

(***************************************************************************)
(* The properties checked.                                                 *)
(***************************************************************************)
CallsTo(ops) == {i \in DOMAIN calls : calls[i].op \in ops}
AddCalls == CallsTo({"add_key", "add_sub_key"})
PassphraseCalls == CallsTo({"passphrase"})

\* a stream of private MPIs and trailing digest, and whether the digest of
\* all but its last HashLen bytes is those bytes
StreamFront(stream) == SubSeq(stream, 1, Len(stream) - HashLen)
StreamDigest(stream) == SubSeq(stream, Len(stream) - HashLen + 1, Len(stream))
StreamVerified(stream) ==
    /\ Len(stream) >= HashLen
    /\ SHA(StreamFront(stream)) = StreamDigest(stream)
StreamMismatch(stream) ==
    /\ Len(stream) >= HashLen
    /\ SHA(StreamFront(stream)) # StreamDigest(stream)

\* the bytes of the packet body in front of the s2k_type byte
PublicEnd == 6 + Len(PublicWire(inp))

\* C1: in a secret key or secret sub key decode with s2k_type 254, once the
\* hash has been compared: if the SHA-1 of the decrypted stream without its
\* last 20 bytes differs from those bytes, the decode has failed with the
\* integrity check error, parse_mpi was called for n and e alone, info holds
\* neither key nor key_id, and neither add_key nor add_sub_key was called.
C1_IntegrityFailure ==
    ( /\ IsSecret(parser)
      /\ Has(loc, "decrypted")
      /\ pc # "check_hash"
      /\ loc["s2k_type"] = 254
      /\ StreamMismatch(loc["decrypted"]) )
    => /\ pc = "failed"
       /\ err = IntegrityCheckFailed
       /\ mpi_parsed = <<"n", "e">>
       /\ ~Has(info, "key")
       /\ ~Has(info, "key_id")
       /\ AddCalls = {}

\* a well formed packet and the wrong passphrase: the integrity check fails
C1_Witness ==
    /\ pc = "failed"
    /\ err = IntegrityCheckFailed
    /\ inp.passphrase = WrongPassphrase
    /\ ~inp.damaged /\ inp.cut = 0 /\ inp.keep = "all"

\* the stream of private MPIs of a secret key packet: the decrypted bytes,
\* or with s2k_type 0 the bytes that follow the s2k_type byte
SecretStream ==
    IF loc["s2k_type"] = 254 THEN loc["decrypted"]
    ELSE SubSeq(region.bytes, PublicEnd + 2, Len(region.bytes))

\* C2 as claimed: every successful secret key decode, s2k_type 0 included,
\* has a stream whose last 20 bytes are the SHA-1 of the bytes before them.
C2_Original ==
    (pc = "done" /\ IsSecret(parser)) => StreamVerified(SecretStream)

\* C2 as amended: a successful secret key decode with s2k_type 254 has
\* passed the integrity check (the SHA-1 of the decrypted stream without its
\* last 20 bytes equals those bytes); with s2k_type 0 no hash is computed or
\* compared, and the private MPIs are those at the front of the plaintext.
C2_Amended ==
    (pc = "done" /\ IsSecret(parser)) =>
        /\ loc["s2k_type"] \in {0, 254}
        /\ loc["s2k_type"] = 254 =>
              /\ StreamVerified(loc["decrypted"])
              /\ loc["generated_hash"] = loc["real_hash"]
              /\ loc["generated_hash"] = SHA(StreamFront(loc["decrypted"]))
        /\ loc["s2k_type"] = 0 =>
              /\ ~Has(loc, "generated_hash")
              /\ ~Has(loc, "real_hash")
              /\ ~Has(loc, "decrypted")
        /\ parse_mpis(Region(SecretStream), <<"d", "p", "q", "u">>).err = NoError

\* an encrypted secret key decoded with the right passphrase
C2_Witness ==
    /\ pc = "done"
    /\ IsSecret(parser)
    /\ loc["s2k_type"] = 254
    /\ inp.passphrase = RightPassphrase
    /\ info["key"] = <<527, 65537, 343, 17, 31, 11>>

\* the keys of info when it is handed to message
InfoKeys == {"tag", "key_version", "ctime", "algorithm", "mpi_values",
             "raw_mpi_bytes", "key", "key_id"}

\* C3: in every key packet decode neither add_key nor add_sub_key has been
\* called until the decode is done, so never when it failed; when it is done
\* exactly one call was made, add_sub_key for the sub key parsers and
\* add_key for the other two, with an info holding all eight keys.
C3_AddOnlyOnSuccess ==
    /\ pc # "done" => AddCalls = {}
    /\ pc = "done" =>
          /\ Cardinality(AddCalls) = 1
          /\ \A i \in AddCalls :
                /\ calls[i].op = IF tag \in {7, 14} THEN "add_sub_key"
                                 ELSE "add_key"
                /\ InfoKeys \subseteq DOMAIN calls[i].arg
                /\ calls[i].arg["tag"] = tag
                /\ calls[i].arg = info

\* a secret sub key decoded and handed to add_sub_key
C3_Witness ==
    /\ pc = "done"
    /\ parser = "SecretSubKeyParser"
    /\ calls[Len(calls)].op = "add_sub_key"

\* C4: message.passphrase is called at most once in a decode, only by a
\* secret key parser that read s2k_type 254 and a registered cipher ID, and
\* until it has been called no key is derived, no IV read and nothing
\* decrypted.
C4_PassphraseProvider ==
    /\ Cardinality(PassphraseCalls) <= 1
    /\ PassphraseCalls # {} =>
          /\ IsSecret(parser)
          /\ Has(loc, "s2k_type")
          /\ loc["s2k_type"] = 254
          /\ loc["encryption_algo"] \in DOMAIN ENCRYPTION_ALGORITHMS
    /\ PassphraseCalls = {} =>
          /\ ~Has(loc, "key_passphrase")
          /\ ~Has(loc, "iv")
          /\ ~Has(loc, "decrypted")

\* a decode that asked for the passphrase once and went on to decrypt
C4_Witness ==
    /\ pc = "done"
    /\ Cardinality(PassphraseCalls) = 1
    /\ Has(loc, "decrypted")

\* C5 as claimed: a secret key packet with s2k_type 254 and a cipher ID that
\* is not registered fails with the unsupported cipher error, the passphrase
\* not asked for, the region read up to the cipher ID and no further.
C5_UnsupportedCipher ==
    ( /\ IsSecret(parser)
      /\ Has(loc, "encryption_algo")
      /\ loc["encryption_algo"] \notin DOMAIN ENCRYPTION_ALGORITHMS )
    => /\ pc = "failed"
       /\ err = UnsupportedCipher
       /\ PassphraseCalls = {}
       /\ ~Has(loc, "iv")
       /\ ~Has(loc, "decrypted")
       /\ region.pos = 8 * (PublicEnd + 2)

\* the header is whole and the algorithm it declares is not 1
DeclaresUnsupportedAlgorithm ==
    /\ Len(region.bytes) >= 6
    /\ region.bytes[6] # 1

\* the exception of the guard on the algorithm in consume_common
AlgorithmGuardError == Error("UnsupportedFeature", "RSA public keys")

\* C6 as claimed: a key packet declaring an algorithm other than 1 fails with
\* the unsupported algorithm error, the region read up to the end of the 6
\* byte header and no MPI parsed.
C6_Original ==
    (DeclaresUnsupportedAlgorithm /\ pc # "consume_common")
    => /\ pc = "failed"
       /\ err \in {AlgorithmGuardError, UnknownMpiAlgorithm}
       /\ region.pos = 48
       /\ mpi_parsed = <<>>

\* C6 as amended: a key packet declaring an algorithm other than 1 fails with
\* the region read up to the end of the 6 byte header, get_mpi_values never
\* reached and no MPI parsed; the error is that of the guard on the algorithm
\* when the version is 4, and the version error otherwise.
C6_Amended ==
    (DeclaresUnsupportedAlgorithm /\ pc # "consume_common")
    => /\ pc = "failed"
       /\ err = IF region.bytes[1] = 4 THEN AlgorithmGuardError
                ELSE UnsupportedVersion
       /\ region.pos = 48
       /\ mpi_parsed = <<>>
       /\ info = EmptyDict

\* a version 4 packet declaring algorithm 99
C6_Witness ==
    /\ pc = "failed"
    /\ err = AlgorithmGuardError
    /\ region.bytes[1] = 4
    /\ region.bytes[6] = 99

\* C7: the bytes hashed for the key ID are 0x99, the length of the body in
\* 16 bits big-endian, and the body: the first 6 bytes of the packet (version,
\* creation time, algorithm) and the public MPIs as they are on the wire; the
\* length is 6 + len(raw_mpi_bytes), and key_id is the last 8 bytes of the
\* digest of these bytes, whatever the parser.
C7_KeyIdPreimage ==
    Has(info, "key_id") =>
        LET raw == PublicWire(inp)
            body == SubSeq(region.bytes, 1, 6) \o raw
            hashed == <<153>> \o Uint16Bytes(6 + Len(raw)) \o body
        IN  /\ loc["fingerprint_data"] = hashed
            /\ Len(hashed) = 3 + 6 + Len(info["raw_mpi_bytes"])
            /\ Uint(SubSeq(loc["fingerprint_data"], 2, 3))
                  = 6 + Len(info["raw_mpi_bytes"])
            /\ info["key_id"] = Low64(SHA(hashed))
            /\ body = <<inp.header[1]>> \o UintBytes4(inp.ctime)
                      \o <<inp.header[2]>> \o raw

\* a secret key with a creation time of four different bytes and a modulus
\* whose count of bits is not the least
C7_Witness ==
    /\ pc = "done"
    /\ IsSecret(parser)
    /\ inp.ctime = 16909060
    /\ inp.n.bits = 16
    /\ Has(info, "key_id")

\* the ciphertext given to crypt_CFB on its own, and the chunk fed back for
\* the k-th chunk (k from 0)
CfbCiphertext == SubSeq(region.bytes, Len(inp.read) + 1, Len(region.bytes))
CfbFeedback(k) ==
    IF k = 0 THEN CfbIV(inp)
    ELSE SubSeq(CfbCiphertext, (k - 1) * inp.block_size + 1, k * inp.block_size)

\* C8: crypt_CFB applied to the cipher feedback encryption of a plaintext
\* under the same key and IV returns the plaintext; each byte of the result
\* is the ciphertext byte xor the byte of the encryption of the ciphertext
\* chunk before it (the IV for the first chunk); the result is as long as
\* what remained of the region, and the region is read to its end.
C8_CfbInverts ==
    pc = "done" =>
        /\ loc["result"] = inp.plain
        /\ Len(loc["result"]) = Len(CfbCiphertext)
        /\ region.pos = RegionLen(region)
        /\ \A j \in 1..Len(CfbCiphertext) :
              loc["result"][j] =
                  XorByte(CfbCiphertext[j],
                          Encrypt(inp.key,
                                  CfbFeedback((j - 1) \div inp.block_size))
                              [((j - 1) % inp.block_size) + 1])

\* several chunks, the last shorter than a block
C8_Witness ==
    /\ pc = "done"
    /\ Len(inp.plain) > inp.block_size
    /\ Len(inp.plain) % inp.block_size # 0
    /\ inp.block_size > 1
    /\ loc["result"] = inp.plain

\* C9: raw_mpi_bytes is the public MPIs as they are on the wire, the bytes of
\* the region from the end of the header on; get_mpi_values leaves the region
\* at the end of them, so that the s2k_type a secret key parser reads is the
\* byte after the last public MPI; the bytes of the region never change.
C9_RawMpiBytes ==
    /\ region.bytes = KeyBody(inp)
    /\ Has(info, "raw_mpi_bytes") =>
          /\ info["raw_mpi_bytes"] = PublicWire(inp)
          /\ info["raw_mpi_bytes"] = SubSeq(region.bytes, 7, PublicEnd)
    /\ pc = "consume_rest" => region.pos = 8 * PublicEnd
    /\ (IsSecret(parser) /\ Has(loc, "s2k_type")) =>
          loc["s2k_type"] = region.bytes[PublicEnd + 1]

\* a secret key whose modulus has a count of bits that is not the least,
\* after the s2k_type was read
C9_Witness ==
    /\ IsSecret(parser)
    /\ Has(loc, "s2k_type")
    /\ inp.n.bits = 16
    /\ Len(inp.e.mag) = 3
    /\ info["raw_mpi_bytes"] = <<0, 16, 2, 15, 0, 17, 1, 0, 1>>

\* the four header values pass their guards
SigGuardsPass(b) ==
    /\ b[1] = 4
    /\ b[2] \in {19, 24}
    /\ b[3] = 1
    /\ b[4] = 2

\* C10: in a signature decode consume_subsignature is called at most twice
\* and only when version, signature type, public key algorithm and hash
\* algorithm passed their guards; the first call gets the
\* hashed_subpacket_length bytes after the 6 byte header, the second the
\* unhashed_subpacket_length bytes after the 16 bit length that follows
\* them; a header value outside its allowed set fails the decode with the
\* guard's error, no call made, and the values are kept as read.
C10_SubpacketRegions ==
    LET b == region.bytes
        H == Uint(SubSeq(b, 5, 6))
        U == Uint(SubSeq(b, 6 + H + 1, 6 + H + 2))
    IN  /\ Len(calls) <= 2
        /\ \A i \in DOMAIN calls : calls[i].op = "consume_subsignature"
        /\ Len(calls) >= 1 =>
              /\ SigGuardsPass(b)
              /\ calls[1].arg = SubSeq(b, 7, 6 + H)
              /\ Len(calls[1].arg) = loc["hashed_subpacket_length"]
        /\ Len(calls) = 2 =>
              /\ calls[2].arg = SubSeq(b, 6 + H + 3, 6 + H + 2 + U)
              /\ Len(calls[2].arg) = loc["unhashed_subpacket_length"]
        /\ (Len(b) >= 6 /\ ~SigGuardsPass(b) /\ pc # "header") =>
              /\ pc = "failed"
              /\ err.kind = "UnsupportedFeature"
              /\ calls = <<>>
        /\ Has(loc, "version") =>
              <<loc["version"], loc["signature_type"],
                loc["public_key_algorithm"], loc["hash_algorithm"]>>
                  = SubSeq(b, 1, 4)
        /\ pc = "done" => Len(calls) = 2

\* a signature decoded to its end, both subpacket regions non-empty
C10_Witness ==
    /\ pc = "done"
    /\ Len(calls) = 2
    /\ calls[1].arg = <<17, 18>>
    /\ calls[2].arg = <<33>>

====
